---- MODULE Spec2Model ----
(***************************************************************************)
(* The CLR debug header (src/coreclr/debug/ee/clrdebugheader.cpp): the     *)
(* statically allocated row tables, the table directory and the exported   *)
(* ClrDebugHeader, filled by PopulateClrDebugHeaders through the MAKE_*    *)
(* macros, and read by an external diagnostic tool.  Also the executable   *)
(* path function minipal_getexepath (src/native/minipal/getexepath.h).     *)
(*                                                                         *)
(* A macro invocation is one step of the builder: it performs exactly one  *)
(* store to global memory, so the states an external reader can observe    *)
(* are the states between macro invocations.                               *)
(*                                                                         *)
(* Pointers are symbolic: a string literal is its text, the address of an  *)
(* object is "&" followed by its name, the null pointer is "NULL".         *)
(* sizeof/offsetof values of the runtime types are numbers carried by the  *)
(* call records: the types themselves are outside this file.               *)
(***************************************************************************)
EXTENDS Integers, Sequences, FiniteSets, TLC

\* ---------------------------------------------------------------- bounds
\* longest enumerated registration sequence of the registrar specification
MaxLen == 3
\* how many registrations beyond a table's capacity a burst sequence makes
MaxOver == 1
\* how many times the builder function is called
MaxRuns == 2

\* ------------------------------------------------------ program constants
DebugTablesArraySize == 5
DebugGlobalsArraySize == 50
DebugTypesArraySize == 100
\* the field array given the type array's size
DebugFieldsArraySize_AsTypes == DebugTypesArraySize
DebugFieldsArraySize == 200
DebugBasesArraySize == 100
DebugDefinesArraySize == 50

\* const uint8_t Cookie[4] = { 0x20, 0x43, 0x44, 0x48 }
CookieBytes == <<32, 67, 68, 72>>
MajorVersionValue == 2
MinorVersionValue == 0

NULL == "NULL"

\* uint32_t values.  TLC's integers are 32-bit signed, so a uint32_t is held
\* by its bit pattern read as a two's complement number: v for v < 2^31 and
\* v - 2^32 for the others (0xFFFFFFFF is -1).  Addition and subtraction
\* modulo 2^32 are then the plain ones; the order is the unsigned one below.
ULess(a, b) == IF (a < 0) = (b < 0) THEN a < b ELSE b < 0
ULeq(a, b) == a = b \/ ULess(a, b)

\* ------------------------------------------------------------ row shapes
DebugTable(TableName, TableElements, RowCount) ==
  [TableName |-> TableName, TableElements |-> TableElements, RowCount |-> RowCount]

DebugGlobalRow(GlobalName, Address) ==
  [GlobalName |-> GlobalName, Address |-> Address]

DebugTypeRow(TypeName, Size) ==
  [TypeName |-> TypeName, Size |-> Size]

DebugMemberOffsetRow(MemberName, TypeId, Offset) ==
  [MemberName |-> MemberName, TypeId |-> TypeId, Offset |-> Offset]

DebugDefineRow(DefineName, DefineValue) ==
  [DefineName |-> DefineName, DefineValue |-> DefineValue]

\* #define baseoffset(type, base, field) (offsetof(type, field) - offsetof(base, field))
\* size_t subtraction stored into the uint32_t Offset member: the difference
\* modulo 2^32, negative in the encoding above when it wrapped around
\* the operands of the subtraction exchanged
baseoffset_Swapped(offsetInType, offsetInBase) == offsetInBase - offsetInType

baseoffset(offsetInType, offsetInBase) == offsetInType - offsetInBase

\* ---------------------------------------------------------- macro calls
\* One record per macro invocation: the macro, its stringized name
\* argument, the local variable it declares or reads, its pointer operand
\* and its compile-time numbers (sizeof, offsetof, the define's value).
Call(op, name, id, ptr, val, val2, line) ==
  [op |-> op, name |-> name, id |-> id, ptr |-> ptr, val |-> val, val2 |-> val2,
   line |-> line]

\* MAKE_GLOBAL_ENTRY(Name): { #Name, &Name }
GlobalCall(Name, line) == Call("GLOBAL", Name, "", "&" \o Name, 0, 0, line)

\* MAKE_TYPE_ENTRY_WITH_ID(TypeName, TypeIdName): { #TypeName, sizeof(TypeName) }
TypeCall(TypeName, TypeIdName, size, line) ==
  Call("TYPE", TypeName, TypeIdName, NULL, size, 0, line)

\* MAKE_FIELD_ENTRY_WITH_ID(TypeName, TypeIdName, FieldName):
\*   { #FieldName, TypeIdName, offsetof(TypeName, FieldName) }
FieldCall(FieldName, TypeIdName, offset, line) ==
  Call("FIELD", FieldName, TypeIdName, NULL, offset, 0, line)

\* MAKE_BASE_TYPE_ENTRY_WITH_ID(TypeName, TypeIdName, BaseType, FieldName):
\*   { #BaseType, TypeIdName, baseoffset(TypeName, BaseType, FieldName) }
\* offsetInType = offsetof(TypeName, FieldName), offsetInBase = offsetof(BaseType, FieldName)
BaseCall(BaseType, TypeIdName, offsetInType, offsetInBase, line) ==
  Call("BASE", BaseType, TypeIdName, NULL, offsetInType, offsetInBase, line)

\* MAKE_DEFINE_ENTRY(Name, Value): { #Name, Value }
DefineCall(Name, Value, line) == Call("DEFINE", Name, "", NULL, Value, 0, line)

\* MAKE_TABLE(TableName, TableAddress, TableCount); TableCount names a counter
TableCall(TableName, TableAddress, TableCount, line) ==
  Call("TABLE", TableName, TableCount, TableAddress, 0, 0, line)

\* ClrDebugHeader.DebugTableCount = currentTablePos;
PublishCall == Call("PUBLISH", "", "currentTablePos", NULL, 0, 0, 489)

\* The registration calls of PopulateClrDebugHeaders, lines 180-481, in
\* order.  The sizes and offsets stand for the values the compiler computes
\* from the runtime's type definitions: field k of a type is put at 8*k and
\* a base sub-object at offset 0 of the derived type.
AllRegistrationCalls ==
  << GlobalCall("ThreadStore::s_pThreadStore", 180),
     TypeCall("ThreadStore", "ThreadStoreTypeId", 16, 181),
     FieldCall("m_ThreadList", "ThreadStoreTypeId", 0, 182),
     TypeCall("Thread", "ThreadTypeId", 48, 184),
     FieldCall("m_Link", "ThreadTypeId", 0, 185),
     FieldCall("m_ThreadId", "ThreadTypeId", 8, 186),
     FieldCall("m_OSThreadId", "ThreadTypeId", 16, 187),
     FieldCall("m_LastThrownObjectHandle", "ThreadTypeId", 24, 188),
     FieldCall("m_alloc_context", "ThreadTypeId", 32, 189),
     TypeCall("MethodTable", "MethodTableTypeId", 136, 191),
     FieldCall("m_dwFlags", "MethodTableTypeId", 0, 192),
     FieldCall("m_wFlags2", "MethodTableTypeId", 8, 193),
     FieldCall("m_BaseSize", "MethodTableTypeId", 16, 194),
     FieldCall("m_wToken", "MethodTableTypeId", 24, 195),
     FieldCall("m_wNumVirtuals", "MethodTableTypeId", 32, 196),
     FieldCall("m_wNumInterfaces", "MethodTableTypeId", 40, 197),
     FieldCall("m_pParentMethodTable", "MethodTableTypeId", 48, 198),
     FieldCall("m_pLoaderModule", "MethodTableTypeId", 56, 199),
     FieldCall("m_pWriteableData", "MethodTableTypeId", 64, 200),
     FieldCall("m_pCanonMT", "MethodTableTypeId", 72, 201),
     FieldCall("m_pEEClass", "MethodTableTypeId", 80, 202),
     FieldCall("m_pPerInstInfo", "MethodTableTypeId", 88, 203),
     FieldCall("m_ElementTypeHnd", "MethodTableTypeId", 96, 204),
     FieldCall("m_pMultipurposeSlot1", "MethodTableTypeId", 104, 205),
     FieldCall("m_pInterfaceMap", "MethodTableTypeId", 112, 206),
     FieldCall("m_pMultipurposeSlot2", "MethodTableTypeId", 120, 207),
     TypeCall("MethodDesc", "MethodDescTypeId", 48, 209),
     FieldCall("m_chunkIndex", "MethodDescTypeId", 0, 210),
     FieldCall("m_wFlags", "MethodDescTypeId", 8, 211),
     FieldCall("m_bFlags2", "MethodDescTypeId", 16, 212),
     FieldCall("m_wFlags3AndTokenRemainder", "MethodDescTypeId", 24, 213),
     FieldCall("m_wSlotNumber", "MethodDescTypeId", 32, 214),
     TypeCall("FCallMethodDesc", "FCallMethodDescTypeId", 8, 216),
     BaseCall("MethodDesc", "FCallMethodDescTypeId", 0, 0, 217),
     TypeCall("NDirectMethodDesc", "NDirectMethodDescTypeId", 8, 219),
     BaseCall("MethodDesc", "NDirectMethodDescTypeId", 0, 0, 220),
     TypeCall("EEImplMethodDesc", "EEImplMethodDescTypeId", 8, 222),
     BaseCall("MethodDesc", "EEImplMethodDescTypeId", 0, 0, 223),
     TypeCall("ArrayMethodDesc", "ArrayMethodDescTypeId", 8, 225),
     BaseCall("MethodDesc", "ArrayMethodDescTypeId", 0, 0, 226),
     TypeCall("InstantiatedMethodDesc", "InstantiatedMethodDescTypeId", 8, 228),
     BaseCall("MethodDesc", "InstantiatedMethodDescTypeId", 0, 0, 229),
     TypeCall("DynamicMethodDesc", "DynamicMethodDescTypeId", 8, 231),
     BaseCall("MethodDesc", "DynamicMethodDescTypeId", 0, 0, 232),
     TypeCall("MethodDescChunk", "MethodDescChunkTypeId", 48, 234),
     FieldCall("m_methodTable", "MethodDescChunkTypeId", 0, 235),
     FieldCall("m_next", "MethodDescChunkTypeId", 8, 236),
     FieldCall("m_size", "MethodDescChunkTypeId", 16, 237),
     FieldCall("m_count", "MethodDescChunkTypeId", 24, 238),
     FieldCall("m_flagsAndTokenRange", "MethodDescChunkTypeId", 32, 239),
     TypeCall("MethodImpl", "MethodImplTypeId", 8, 241),
     TypeCall("TypeDesc", "TypeDescTypeId", 16, 243),
     FieldCall("m_typeAndFlags", "TypeDescTypeId", 0, 244),
     TypeCall("ParamTypeDesc", "ParamTypeDescTypeId", 16, 246),
     BaseCall("TypeDesc", "ParamTypeDescTypeId", 0, 0, 247),
     FieldCall("m_Arg", "ParamTypeDescTypeId", 0, 248),
     TypeCall("GenericsDictInfo", "GenericsDictInfoTypeId", 24, 250),
     FieldCall("m_wNumDicts", "GenericsDictInfoTypeId", 0, 251),
     FieldCall("m_wNumTyPars", "GenericsDictInfoTypeId", 8, 252),
     TypeCall("MethodTableWriteableData", "MethodTableWriteableDataTypeId", 16, 254),
     FieldCall("m_dwFlags", "MethodTableWriteableDataTypeId", 0, 255),
     TypeCall("Module", "ModuleTypeId", 56, 257),
     FieldCall("m_pAssembly", "ModuleTypeId", 0, 258),
     FieldCall("m_pSimpleName", "ModuleTypeId", 8, 259),
     FieldCall("m_pPEAssembly", "ModuleTypeId", 16, 260),
     FieldCall("m_pReadyToRunInfo", "ModuleTypeId", 24, 261),
     FieldCall("m_TypeDefToMethodTableMap", "ModuleTypeId", 32, 262),
     FieldCall("m_MethodDefToDescMap", "ModuleTypeId", 40, 263),
     TypeCall("PEAssembly", "PEAssemblyTypeId", 24, 265),
     FieldCall("m_pMDImport", "PEAssemblyTypeId", 0, 266),
     FieldCall("m_PEImage", "PEAssemblyTypeId", 8, 267),
     TypeCall("PEImage", "PEImageTypeId", 32, 269),
     FieldCall("m_path", "PEImageTypeId", 0, 270),
     FieldCall("m_pLayouts", "PEImageTypeId", 8, 271),
     FieldCall("m_sModuleFileNameHintUsedByDac", "PEImageTypeId", 16, 272),
     DefineCall("IMAGE_FLAT", 0, 274),
     DefineCall("IMAGE_LOADED", 1, 275),
     DefineCall("IMAGE_COUNT", 2, 276),
     TypeCall("PEDecoder", "PEDecoderTypeId", 32, 278),
     FieldCall("m_base", "PEDecoderTypeId", 0, 279),
     FieldCall("m_size", "PEDecoderTypeId", 8, 280),
     FieldCall("m_flags", "PEDecoderTypeId", 16, 281),
     TypeCall("PEImageLayout", "PEImageLayoutTypeId", 8, 283),
     BaseCall("PEDecoder", "PEImageLayoutTypeId", 0, 0, 284),
     TypeCall("EEClass", "EEClassTypeId", 24, 286),
     FieldCall("m_fFieldsArePacked", "EEClassTypeId", 0, 287),
     FieldCall("m_cbFixedEEClassFields", "EEClassTypeId", 8, 288),
     TypeCall("ArrayClass", "ArrayClassTypeId", 24, 290),
     FieldCall("m_rank", "ArrayClassTypeId", 0, 291),
     FieldCall("m_ElementType", "ArrayClassTypeId", 8, 292),
     TypeCall("LoaderHeap", "LoaderHeapTypeId", 8, 294),
     TypeCall("LoaderAllocator", "LoaderAllocatorTypeId", 32, 296),
     FieldCall("m_pLowFrequencyHeap", "LoaderAllocatorTypeId", 0, 297),
     FieldCall("m_pHighFrequencyHeap", "LoaderAllocatorTypeId", 8, 298),
     FieldCall("m_pStubHeap", "LoaderAllocatorTypeId", 16, 299),
     TypeCall("GlobalLoaderAllocator", "GlobalLoaderAllocatorTypeId", 8, 301),
     BaseCall("LoaderAllocator", "GlobalLoaderAllocatorTypeId", 0, 0, 302),
     TypeCall("LookupMapBase", "LookupMapBaseTypeId", 40, 304),
     FieldCall("pNext", "LookupMapBaseTypeId", 0, 305),
     FieldCall("pTable", "LookupMapBaseTypeId", 8, 306),
     FieldCall("dwCount", "LookupMapBaseTypeId", 16, 307),
     FieldCall("supportedFlags", "LookupMapBaseTypeId", 24, 308),
     TypeCall("LookupMap<MethodDesc *>", "LookupMap_MethodDesc_Ptr", 8, 310),
     BaseCall("LookupMapBase", "LookupMap_MethodDesc_Ptr", 0, 0, 311),
     TypeCall("Bucket", "BucketTypeId", 24, 313),
     FieldCall("m_rgKeys", "BucketTypeId", 0, 314),
     FieldCall("m_rgValues", "BucketTypeId", 8, 315),
     TypeCall("HashMap", "HashMapTypeId", 16, 317),
     FieldCall("m_rgBuckets", "HashMapTypeId", 0, 318),
     TypeCall("PtrHashMap", "PtrHashMapTypeId", 16, 320),
     FieldCall("m_HashMap", "PtrHashMapTypeId", 0, 321),
     GlobalCall("AppDomain::m_pTheAppDomain", 323),
     TypeCall("AppDomain", "AppDomainTypeId", 32, 324),
     FieldCall("m_Assemblies", "AppDomainTypeId", 0, 325),
     FieldCall("m_Stage.m_val", "AppDomainTypeId", 8, 326),
     FieldCall("m_friendlyName", "AppDomainTypeId", 16, 327),
     GlobalCall("SystemDomain::m_pSystemDomain", 329),
     TypeCall("SystemDomain", "SystemDomainTypeId", 24, 330),
     FieldCall("m_pSystemAssembly", "SystemDomainTypeId", 0, 331),
     FieldCall("m_GlobalAllocator", "SystemDomainTypeId", 8, 332),
     TypeCall("AppDomain::DomainAssemblyList", "AppDomain_DomainAssemblyList", 16, 334),
     FieldCall("m_array", "AppDomain_DomainAssemblyList", 0, 335),
     TypeCall("DomainAssembly", "DomainAssemblyTypeId", 16, 337),
     FieldCall("m_pAssembly", "DomainAssemblyTypeId", 0, 338),
     TypeCall("ArrayListBase", "ArrayListBaseTypeId", 24, 340),
     FieldCall("m_count", "ArrayListBaseTypeId", 0, 341),
     FieldCall("m_firstBlock", "ArrayListBaseTypeId", 8, 342),
     TypeCall("ArrayList", "ArrayListTypeId", 8, 344),
     BaseCall("ArrayListBase", "ArrayListTypeId", 0, 0, 345),
     TypeCall("Dictionary", "DictionaryTypeId", 16, 347),
     FieldCall("m_pEntries", "DictionaryTypeId", 0, 348),
     TypeCall("ArrayListBase::ArrayListBlock", "ArrayListBase_ArrayListBlock", 32, 350),
     FieldCall("m_next", "ArrayListBase_ArrayListBlock", 0, 351),
     FieldCall("m_blockSize", "ArrayListBase_ArrayListBlock", 8, 352),
     FieldCall("m_array", "ArrayListBase_ArrayListBlock", 16, 353),
     TypeCall("Assembly", "AssemblyTypeId", 32, 355),
     FieldCall("m_pPEAssembly", "AssemblyTypeId", 0, 356),
     FieldCall("m_pModule", "AssemblyTypeId", 8, 357),
     FieldCall("m_pClassLoader", "AssemblyTypeId", 16, 358),
     TypeCall("ClassLoader", "ClassLoaderTypeId", 8, 360),
     TypeCall("ReadyToRunInfo", "ReadyToRunInfoTypeId", 40, 362),
     FieldCall("m_nRuntimeFunctions", "ReadyToRunInfoTypeId", 0, 363),
     FieldCall("m_pRuntimeFunctions", "ReadyToRunInfoTypeId", 8, 364),
     FieldCall("m_pCompositeInfo", "ReadyToRunInfoTypeId", 16, 365),
     FieldCall("m_entryPointToMethodDescMap", "ReadyToRunInfoTypeId", 24, 366),
     TypeCall("RUNTIME_FUNCTION", "RUNTIME_FUNCTIONTypeId", 32, 368),
     FieldCall("BeginAddress", "RUNTIME_FUNCTIONTypeId", 0, 369),
     FieldCall("EndAddress", "RUNTIME_FUNCTIONTypeId", 8, 370),
     FieldCall("UnwindData", "RUNTIME_FUNCTIONTypeId", 16, 371),
     GlobalCall("g_gcDacGlobals", 373),
     GlobalCall("g_pFreeObjectMethodTable", 374),
     TypeCall("GcDacVars", "GcDacVarsTypeId", 96, 376),
     FieldCall("major_version_number", "GcDacVarsTypeId", 0, 377),
     FieldCall("minor_version_number", "GcDacVarsTypeId", 8, 378),
     FieldCall("generation_size", "GcDacVarsTypeId", 16, 379),
     FieldCall("total_generation_count", "GcDacVarsTypeId", 24, 380),
     FieldCall("built_with_svr", "GcDacVarsTypeId", 32, 381),
     FieldCall("finalize_queue", "GcDacVarsTypeId", 40, 382),
     FieldCall("generation_table", "GcDacVarsTypeId", 48, 383),
     FieldCall("ephemeral_heap_segment", "GcDacVarsTypeId", 56, 384),
     FieldCall("alloc_allocated", "GcDacVarsTypeId", 64, 385),
     FieldCall("n_heaps", "GcDacVarsTypeId", 72, 386),
     FieldCall("g_heaps", "GcDacVarsTypeId", 80, 387),
     TypeCall("dac_gc_heap", "dac_gc_heapTypeId", 40, 389),
     FieldCall("alloc_allocated", "dac_gc_heapTypeId", 0, 390),
     FieldCall("ephemeral_heap_segment", "dac_gc_heapTypeId", 8, 391),
     FieldCall("finalize_queue", "dac_gc_heapTypeId", 16, 392),
     FieldCall("generation_table", "dac_gc_heapTypeId", 24, 393),
     TypeCall("gc_alloc_context", "gc_alloc_contextTypeId", 48, 395),
     FieldCall("alloc_ptr", "gc_alloc_contextTypeId", 0, 396),
     FieldCall("alloc_limit", "gc_alloc_contextTypeId", 8, 397),
     FieldCall("alloc_bytes", "gc_alloc_contextTypeId", 16, 398),
     FieldCall("alloc_bytes_uoh", "gc_alloc_contextTypeId", 24, 399),
     FieldCall("alloc_count", "gc_alloc_contextTypeId", 32, 400),
     TypeCall("dac_generation", "dac_generationTypeId", 32, 402),
     FieldCall("allocation_context", "dac_generationTypeId", 0, 403),
     FieldCall("start_segment", "dac_generationTypeId", 8, 404),
     FieldCall("allocation_start", "dac_generationTypeId", 16, 405),
     TypeCall("dac_heap_segment", "dac_heap_segmentTypeId", 80, 407),
     FieldCall("allocated", "dac_heap_segmentTypeId", 0, 408),
     FieldCall("committed", "dac_heap_segmentTypeId", 8, 409),
     FieldCall("reserved", "dac_heap_segmentTypeId", 16, 410),
     FieldCall("used", "dac_heap_segmentTypeId", 24, 411),
     FieldCall("mem", "dac_heap_segmentTypeId", 32, 412),
     FieldCall("flags", "dac_heap_segmentTypeId", 40, 413),
     FieldCall("next", "dac_heap_segmentTypeId", 48, 414),
     FieldCall("background_allocated", "dac_heap_segmentTypeId", 56, 415),
     FieldCall("heap", "dac_heap_segmentTypeId", 64, 416),
     TypeCall("SBuffer", "SBufferTypeId", 32, 418),
     FieldCall("m_size", "SBufferTypeId", 0, 419),
     FieldCall("m_flags", "SBufferTypeId", 8, 420),
     FieldCall("m_buffer", "SBufferTypeId", 16, 421),
     TypeCall("SString", "SStringTypeId", 8, 423),
     BaseCall("SBuffer", "SStringTypeId", 0, 0, 424),
     TypeCall("HeapList", "HeapListTypeId", 48, 426),
     FieldCall("hpNext", "HeapListTypeId", 0, 427),
     FieldCall("startAddress", "HeapListTypeId", 8, 428),
     FieldCall("endAddress", "HeapListTypeId", 16, 429),
     FieldCall("mapBase", "HeapListTypeId", 24, 430),
     FieldCall("pHdrMap", "HeapListTypeId", 32, 431),
     TypeCall("Object", "ObjectTypeId", 16, 433),
     FieldCall("m_pMethTab", "ObjectTypeId", 0, 434),
     TypeCall("ExceptionObject", "ExceptionObjectTypeId", 32, 436),
     BaseCall("Object", "ExceptionObjectTypeId", 0, 0, 437),
     FieldCall("_message", "ExceptionObjectTypeId", 0, 438),
     FieldCall("_innerException", "ExceptionObjectTypeId", 8, 439),
     FieldCall("_stackTrace", "ExceptionObjectTypeId", 16, 440),
     TypeCall("StringObject", "StringObjectTypeId", 16, 442),
     BaseCall("Object", "StringObjectTypeId", 0, 0, 443),
     FieldCall("m_StringLength", "StringObjectTypeId", 0, 444),
     TypeCall("ArrayBase", "ArrayBaseTypeId", 16, 446),
     BaseCall("Object", "ArrayBaseTypeId", 0, 0, 447),
     FieldCall("m_NumComponents", "ArrayBaseTypeId", 0, 448),
     TypeCall("StackTraceArray::ArrayHeader", "StackTraceArray_ArrayHeader", 24, 450),
     FieldCall("m_size", "StackTraceArray_ArrayHeader", 0, 451),
     FieldCall("m_thread", "StackTraceArray_ArrayHeader", 8, 452),
     TypeCall("StackTraceElement", "StackTraceElementTypeId", 40, 454),
     FieldCall("ip", "StackTraceElementTypeId", 0, 455),
     FieldCall("sp", "StackTraceElementTypeId", 8, 456),
     FieldCall("pFunc", "StackTraceElementTypeId", 16, 457),
     FieldCall("flags", "StackTraceElementTypeId", 24, 458),
     TypeCall("_hpRealCodeHdr", "_hpRealCodeHdrTypeId", 48, 460),
     FieldCall("phdrDebugInfo", "_hpRealCodeHdrTypeId", 0, 461),
     FieldCall("phdrJitEHInfo", "_hpRealCodeHdrTypeId", 8, 462),
     FieldCall("phdrJitGCInfo", "_hpRealCodeHdrTypeId", 16, 463),
     FieldCall("phdrMDesc", "_hpRealCodeHdrTypeId", 24, 464),
     FieldCall("unwindInfos", "_hpRealCodeHdrTypeId", 32, 465),
     GlobalCall("ExecutionManager::m_pEEJitManager", 467),
     TypeCall("EEJitManager", "EEJitManagerTypeId", 8, 468),
     GlobalCall("ExecutionManager::g_codeRangeMap", 470),
     TypeCall("RangeSectionMapData", "RangeSectionMapDataTypeId", 16, 471),
     FieldCall("Data", "RangeSectionMapDataTypeId", 0, 472),
     GlobalCall("ExecutionManager::m_pReadyToRunJitManager", 474),
     TypeCall("ReadyToRunJitManager", "ReadyToRunJitManagerTypeId", 8, 475),
     DefineCall("MinObjectSize", 24, 477),
     DefineCall("FEATURE_EH_FUNCLETS", 1, 479),
     DefineCall("UNION_METHODTABLE", 1, 481) >>

\* #ifdef FEATURE_EH_FUNCLETS ... #endif encloses the call at line 479
RegistrationCalls(funclets) ==
  SelectSeq(AllRegistrationCalls, LAMBDA c : funclets \/ c.line # 479)

\* the Field and Base entries with each other's array
FinalizeCalls_Swapped ==
  << TableCall("Global", "&s_DebugGlobals", "currentGlobalPos", 483),
     TableCall("Type", "&s_DebugTypes", "currentTypePos", 484),
     TableCall("Field", "&s_DebugBases", "currentBasePos", 485),
     TableCall("Base", "&s_DebugFields", "currentFieldPos", 486),
     TableCall("Define", "&s_DebugDefines", "currentDefinePos", 487) >>

\* lines 483-487
FinalizeCalls ==
  << TableCall("Global", "&s_DebugGlobals", "currentGlobalPos", 483),
     TableCall("Type", "&s_DebugTypes", "currentTypePos", 484),
     TableCall("Field", "&s_DebugFields", "currentFieldPos", 485),
     TableCall("Base", "&s_DebugBases", "currentBasePos", 486),
     TableCall("Define", "&s_DebugDefines", "currentDefinePos", 487) >>

\* the table count stored before the directory is complete
FunctionBody_PublishEarly(registrations) ==
  registrations \o SubSeq(FinalizeCalls, 1, 1) \o <<PublishCall>>
    \o SubSeq(FinalizeCalls, 2, Len(FinalizeCalls))

\* The body of a function made of the given registration calls followed by
\* the table directory assembly and the publication of the table count.
FunctionBody(registrations) == registrations \o FinalizeCalls \o <<PublishCall>>

PopulateClrDebugHeaders(funclets) == FunctionBody(RegistrationCalls(funclets))

\* ------------------------------------------------------------------ state
VARIABLES
  prog,               \* the body of the builder function being executed
  assertsEnabled,     \* whether the build compiles ASSERT to a check
  run,                \* which call of the function this is (1 for the first)
  pc,                 \* index in prog of the next call
  status,             \* "running", "done" (returned) or "aborted" (ASSERT fired)
  currentTablePos, currentGlobalPos, currentTypePos,
  currentBasePos, currentFieldPos, currentDefinePos,
  typeIdVars,         \* the uint32_t TypeIdName locals declared so far
  s_DebugTables, s_DebugGlobals, s_DebugTypes,
  s_DebugFields, s_DebugBases, s_DebugDefines,
  ClrDebugHeader,
  linkedAfter,        \* the object the linker put after an array, once a store ran past it
  lastWrite,          \* history: the last store a macro made
  idLog,              \* history: the values given to the TypeIdName locals, in order
  rdCount, rdEntry, rdRow,   \* the external reader: what it has read
  exePlatform, exeOs, exeResult \* minipal_getexepath: build, OS behaviour, result

locals == <<currentTablePos, currentGlobalPos, currentTypePos,
            currentBasePos, currentFieldPos, currentDefinePos, typeIdVars>>
memory == <<s_DebugTables, s_DebugGlobals, s_DebugTypes,
            s_DebugFields, s_DebugBases, s_DebugDefines, ClrDebugHeader, linkedAfter>>
builder == <<prog, assertsEnabled, run, pc, status, locals, lastWrite, idLog>>
reader == <<rdCount, rdEntry, rdRow>>
exe == <<exePlatform, exeOs, exeResult>>
vars == <<builder, memory, reader, exe>>

\* Objects with static storage duration are zero-initialized.  An array is
\* held as the function from the indices stored to so far to their elements;
\* every other element still holds its zero value (Elem below).
ZeroTable == DebugTable(NULL, NULL, 0)
ZeroGlobalRow == DebugGlobalRow(NULL, NULL)
ZeroTypeRow == DebugTypeRow(NULL, 0)
ZeroMemberOffsetRow == DebugMemberOffsetRow(NULL, 0, 0)
ZeroDefineRow == DebugDefineRow(NULL, 0)

\* struct ClrDebugHeader's default member initializers
InitialHeader ==
  [Cookie |-> CookieBytes,
   MajorVersion |-> MajorVersionValue,
   MinorVersion |-> MinorVersionValue,
   DebugTables |-> "&s_DebugTables",
   DebugTableCount |-> 0]

Objects == {"s_DebugTables", "s_DebugGlobals", "s_DebugTypes", "s_DebugFields",
            "s_DebugBases", "s_DebugDefines", "ClrDebugHeader"}

Capacity(obj) ==
  CASE obj = "s_DebugTables" -> DebugTablesArraySize
    [] obj = "s_DebugGlobals" -> DebugGlobalsArraySize
    [] obj = "s_DebugTypes" -> DebugTypesArraySize
    [] obj = "s_DebugFields" -> DebugFieldsArraySize
    [] obj = "s_DebugBases" -> DebugBasesArraySize
    [] obj = "s_DebugDefines" -> DebugDefinesArraySize
    [] OTHER -> 1

NoWrite == [obj |-> "", index |-> 0, inBounds |-> TRUE, typeId |-> 0, typeCount |-> 0]

\* ------------------------------------------------- stores to the arrays
\* arr[index] = value.  Within the array the element is replaced.  Beyond
\* it the behaviour is undefined: the bytes land on whatever the linker put
\* after the array, which is another object of this file or memory the
\* model does not hold ("elsewhere").  The layout is the build's: every
\* store past the same array lands in the same neighbour.
Landing(arr, index) ==
  IF ULess(index, Capacity(arr))
    THEN {[obj |-> arr, at |-> index]}
    ELSE {[obj |-> o, at |-> index - Capacity(arr)] :
             o \in (IF arr \in DOMAIN linkedAfter
                      THEN {linkedAfter[arr]}
                      ELSE (Objects \ {arr}) \cup {"elsewhere"})}

\* values a 32-bit word of foreign bytes may hold
ForeignWords == {0, 1, -1}

\* the first pointer-sized word of an element: its name pointer
FirstWord(arr, value) ==
  CASE arr = "s_DebugTables" -> value.TableName
    [] arr = "s_DebugGlobals" -> value.GlobalName
    [] arr = "s_DebugTypes" -> value.TypeName
    [] arr = "s_DebugDefines" -> value.DefineName
    [] OTHER -> value.MemberName

\* the element of object obj overwritten by the bytes of a foreign element
\* whose first word is the pointer p; w stands for its other words
Overlaid(obj, old, p, w) ==
  CASE obj = "s_DebugTables" -> DebugTable(p, "FOREIGN", old.RowCount)
    [] obj = "s_DebugGlobals" -> DebugGlobalRow(p, "FOREIGN")
    [] obj = "s_DebugTypes" -> DebugTypeRow(p, w)
    [] obj = "s_DebugDefines" -> DebugDefineRow(p, w)
    [] OTHER -> DebugMemberOffsetRow(p, w, w)

\* the header overwritten by foreign bytes: its first 16 bytes hold the
\* cookie, the versions and the directory pointer, the next the table count
OverlaidHeader(old, at, w) ==
  IF at = 0
    THEN [old EXCEPT !.Cookie = <<w % 256, w % 256, w % 256, w % 256>>,
                     !.MajorVersion = w % 65536,
                     !.MinorVersion = w % 65536,
                     !.DebugTables = "FOREIGN"]
    ELSE IF at = 1 THEN [old EXCEPT !.DebugTableCount = w] ELSE old

ZeroOf(obj) ==
  CASE obj = "s_DebugTables" -> ZeroTable
    [] obj = "s_DebugGlobals" -> ZeroGlobalRow
    [] obj = "s_DebugTypes" -> ZeroTypeRow
    [] obj = "s_DebugDefines" -> ZeroDefineRow
    [] OTHER -> ZeroMemberOffsetRow

\* element i of array obj, whose stored elements are cur
Elem(obj, cur, i) == IF i \in DOMAIN cur THEN cur[i] ELSE ZeroOf(obj)

\* the new value of array obj (elements cur) after the store
Stored(obj, cur, arr, value, land, w) ==
  IF land.obj # obj \/ land.at >= Capacity(obj)
    THEN cur
    ELSE [i \in DOMAIN cur \cup {land.at} |->
            IF i # land.at THEN cur[i]
            ELSE IF arr = obj THEN value
            ELSE Overlaid(obj, Elem(obj, cur, i), FirstWord(arr, value), w)]

Store(arr, index, value) ==
  \E land \in Landing(arr, index) :
    \E w \in (IF land.obj \in {arr, "elsewhere"} THEN {0} ELSE ForeignWords) :
      /\ s_DebugTables' = Stored("s_DebugTables", s_DebugTables, arr, value, land, w)
      /\ s_DebugGlobals' = Stored("s_DebugGlobals", s_DebugGlobals, arr, value, land, w)
      /\ s_DebugTypes' = Stored("s_DebugTypes", s_DebugTypes, arr, value, land, w)
      /\ s_DebugFields' = Stored("s_DebugFields", s_DebugFields, arr, value, land, w)
      /\ s_DebugBases' = Stored("s_DebugBases", s_DebugBases, arr, value, land, w)
      /\ s_DebugDefines' = Stored("s_DebugDefines", s_DebugDefines, arr, value, land, w)
      /\ ClrDebugHeader' = IF land.obj = "ClrDebugHeader"
                             THEN OverlaidHeader(ClrDebugHeader, land.at, w)
                             ELSE ClrDebugHeader
      /\ linkedAfter' = IF land.obj = arr THEN linkedAfter
                         ELSE [a \in DOMAIN linkedAfter \cup {arr} |->
                                 IF a = arr THEN land.obj ELSE linkedAfter[a]]
      /\ lastWrite' = [obj |-> arr, index |-> index,
                       inBounds |-> ULess(index, Capacity(arr)),
                       typeId |-> IF arr \in {"s_DebugFields", "s_DebugBases"}
                                    THEN value.TypeId ELSE 0,
                       typeCount |-> currentTypePos]

\* ------------------------------------------------------------ the builder
\* ASSERT(expr): a check in builds that enable assertions, nothing otherwise
AssertPasses(expr) == ~assertsEnabled \/ expr

Executing(op) == status = "running" /\ pc <= Len(prog) /\ prog[pc].op = op

\* the statement after the macro's ASSERT is reached only if it passes;
\* after the last statement the function returns
Proceed(asserted) ==
  /\ pc' = pc + 1
  /\ status' = IF ~AssertPasses(asserted) THEN "aborted"
               ELSE IF pc = Len(prog) THEN "done" ELSE "running"

LocalValue(name) ==
  CASE name = "currentTablePos" -> currentTablePos
    [] name = "currentGlobalPos" -> currentGlobalPos
    [] name = "currentTypePos" -> currentTypePos
    [] name = "currentBasePos" -> currentBasePos
    [] name = "currentFieldPos" -> currentFieldPos
    [] name = "currentDefinePos" -> currentDefinePos
    [] OTHER -> typeIdVars[name]

MAKE_GLOBAL_ENTRY ==
  /\ Executing("GLOBAL")
  /\ Store("s_DebugGlobals", currentGlobalPos,
           DebugGlobalRow(prog[pc].name, prog[pc].ptr))
  /\ currentGlobalPos' = currentGlobalPos + 1
  /\ Proceed(ULeq(currentGlobalPos', DebugGlobalsArraySize))
  /\ UNCHANGED <<currentTablePos, currentTypePos, currentBasePos, currentFieldPos,
                 currentDefinePos, typeIdVars, idLog>>
  /\ UNCHANGED <<prog, assertsEnabled, run, reader, exe>>

\* the id taken after the increment
MAKE_TYPE_ENTRY_WITH_ID_IdAfter ==
  /\ Executing("TYPE")
  /\ prog[pc].id \notin DOMAIN typeIdVars
  /\ typeIdVars' = typeIdVars @@ (prog[pc].id :> currentTypePos + 1)
  /\ idLog' = Append(idLog, currentTypePos + 1)
  /\ Store("s_DebugTypes", currentTypePos,
           DebugTypeRow(prog[pc].name, prog[pc].val))
  /\ currentTypePos' = currentTypePos + 1
  /\ Proceed(ULeq(currentTypePos', DebugTypesArraySize))
  /\ UNCHANGED <<currentTablePos, currentGlobalPos, currentBasePos, currentFieldPos,
                 currentDefinePos>>
  /\ UNCHANGED <<prog, assertsEnabled, run, reader, exe>>

\* the increment of currentTypePos left out
MAKE_TYPE_ENTRY_WITH_ID_NoIncrement ==
  /\ Executing("TYPE")
  /\ prog[pc].id \notin DOMAIN typeIdVars
  /\ typeIdVars' = typeIdVars @@ (prog[pc].id :> currentTypePos)
  /\ idLog' = Append(idLog, currentTypePos)
  /\ Store("s_DebugTypes", currentTypePos,
           DebugTypeRow(prog[pc].name, prog[pc].val))
  /\ Proceed(ULeq(currentTypePos, DebugTypesArraySize))
  /\ UNCHANGED <<currentTablePos, currentGlobalPos, currentTypePos, currentBasePos,
                 currentFieldPos, currentDefinePos>>
  /\ UNCHANGED <<prog, assertsEnabled, run, reader, exe>>

MAKE_TYPE_ENTRY_WITH_ID ==
  /\ Executing("TYPE")
  /\ prog[pc].id \notin DOMAIN typeIdVars
  /\ typeIdVars' = typeIdVars @@ (prog[pc].id :> currentTypePos)
  /\ idLog' = Append(idLog, currentTypePos)
  /\ Store("s_DebugTypes", currentTypePos,
           DebugTypeRow(prog[pc].name, prog[pc].val))
  /\ currentTypePos' = currentTypePos + 1
  /\ Proceed(ULeq(currentTypePos', DebugTypesArraySize))
  /\ UNCHANGED <<currentTablePos, currentGlobalPos, currentBasePos, currentFieldPos,
                 currentDefinePos>>
  /\ UNCHANGED <<prog, assertsEnabled, run, reader, exe>>

\* the row named after the derived type (#TypeName) instead of #BaseType
MAKE_BASE_TYPE_ENTRY_WITH_ID_DerivedName ==
  /\ Executing("BASE")
  /\ prog[pc].id \in DOMAIN typeIdVars
  /\ Store("s_DebugBases", currentBasePos,
           DebugMemberOffsetRow(
             Elem("s_DebugTypes", s_DebugTypes, LocalValue(prog[pc].id)).TypeName,
             LocalValue(prog[pc].id),
             baseoffset(prog[pc].val, prog[pc].val2)))
  /\ currentBasePos' = currentBasePos + 1
  /\ Proceed(ULeq(currentBasePos', DebugBasesArraySize))
  /\ UNCHANGED <<currentTablePos, currentGlobalPos, currentTypePos, currentFieldPos,
                 currentDefinePos, typeIdVars, idLog>>
  /\ UNCHANGED <<prog, assertsEnabled, run, reader, exe>>

MAKE_BASE_TYPE_ENTRY_WITH_ID ==
  /\ Executing("BASE")
  /\ prog[pc].id \in DOMAIN typeIdVars
  /\ Store("s_DebugBases", currentBasePos,
           DebugMemberOffsetRow(prog[pc].name, LocalValue(prog[pc].id),
                                baseoffset(prog[pc].val, prog[pc].val2)))
  /\ currentBasePos' = currentBasePos + 1
  /\ Proceed(ULeq(currentBasePos', DebugBasesArraySize))
  /\ UNCHANGED <<currentTablePos, currentGlobalPos, currentTypePos, currentFieldPos,
                 currentDefinePos, typeIdVars, idLog>>
  /\ UNCHANGED <<prog, assertsEnabled, run, reader, exe>>

\* the Base macro's counter used for the Field array
MAKE_FIELD_ENTRY_WITH_ID_BasePos ==
  /\ Executing("FIELD")
  /\ prog[pc].id \in DOMAIN typeIdVars
  /\ Store("s_DebugFields", currentBasePos,
           DebugMemberOffsetRow(prog[pc].name, LocalValue(prog[pc].id), prog[pc].val))
  /\ currentBasePos' = currentBasePos + 1
  /\ Proceed(ULeq(currentBasePos', DebugFieldsArraySize))
  /\ UNCHANGED <<currentTablePos, currentGlobalPos, currentTypePos, currentFieldPos,
                 currentDefinePos, typeIdVars, idLog>>
  /\ UNCHANGED <<prog, assertsEnabled, run, reader, exe>>

MAKE_FIELD_ENTRY_WITH_ID ==
  /\ Executing("FIELD")
  /\ prog[pc].id \in DOMAIN typeIdVars
  /\ Store("s_DebugFields", currentFieldPos,
           DebugMemberOffsetRow(prog[pc].name, LocalValue(prog[pc].id), prog[pc].val))
  /\ currentFieldPos' = currentFieldPos + 1
  /\ Proceed(ULeq(currentFieldPos', DebugFieldsArraySize))
  /\ UNCHANGED <<currentTablePos, currentGlobalPos, currentTypePos, currentBasePos,
                 currentDefinePos, typeIdVars, idLog>>
  /\ UNCHANGED <<prog, assertsEnabled, run, reader, exe>>

MAKE_DEFINE_ENTRY ==
  /\ Executing("DEFINE")
  /\ Store("s_DebugDefines", currentDefinePos,
           DebugDefineRow(prog[pc].name, prog[pc].val))
  /\ currentDefinePos' = currentDefinePos + 1
  /\ Proceed(ULeq(currentDefinePos', DebugDefinesArraySize))
  /\ UNCHANGED <<currentTablePos, currentGlobalPos, currentTypePos, currentBasePos,
                 currentFieldPos, typeIdVars, idLog>>
  /\ UNCHANGED <<prog, assertsEnabled, run, reader, exe>>

\* the increment of currentTablePos left out
MAKE_TABLE_NoIncrement ==
  /\ Executing("TABLE")
  /\ Store("s_DebugTables", currentTablePos,
           DebugTable(prog[pc].name, prog[pc].ptr, LocalValue(prog[pc].id)))
  /\ Proceed(ULeq(currentTablePos, DebugTablesArraySize))
  /\ UNCHANGED <<currentTablePos, currentGlobalPos, currentTypePos, currentBasePos,
                 currentFieldPos, currentDefinePos, typeIdVars, idLog>>
  /\ UNCHANGED <<prog, assertsEnabled, run, reader, exe>>

\* the header's table count kept up to date by every MAKE_TABLE
MAKE_TABLE_Publishing ==
  /\ Executing("TABLE")
  /\ s_DebugTables' =
       Stored("s_DebugTables", s_DebugTables, "s_DebugTables",
              DebugTable(prog[pc].name, prog[pc].ptr, LocalValue(prog[pc].id)),
              [obj |-> "s_DebugTables", at |-> currentTablePos], 0)
  /\ ClrDebugHeader' = [ClrDebugHeader EXCEPT !.DebugTableCount = currentTablePos + 1]
  /\ lastWrite' = [obj |-> "s_DebugTables", index |-> currentTablePos,
                   inBounds |-> ULess(currentTablePos, DebugTablesArraySize),
                   typeId |-> 0, typeCount |-> currentTypePos]
  /\ currentTablePos' = currentTablePos + 1
  /\ Proceed(ULeq(currentTablePos', DebugTablesArraySize))
  /\ UNCHANGED <<s_DebugGlobals, s_DebugTypes, s_DebugFields, s_DebugBases,
                 s_DebugDefines, linkedAfter>>
  /\ UNCHANGED <<currentGlobalPos, currentTypePos, currentBasePos, currentFieldPos,
                 currentDefinePos, typeIdVars, idLog>>
  /\ UNCHANGED <<prog, assertsEnabled, run, reader, exe>>

MAKE_TABLE ==
  /\ Executing("TABLE")
  /\ Store("s_DebugTables", currentTablePos,
           DebugTable(prog[pc].name, prog[pc].ptr, LocalValue(prog[pc].id)))
  /\ currentTablePos' = currentTablePos + 1
  /\ Proceed(ULeq(currentTablePos', DebugTablesArraySize))
  /\ UNCHANGED <<currentGlobalPos, currentTypePos, currentBasePos, currentFieldPos,
                 currentDefinePos, typeIdVars, idLog>>
  /\ UNCHANGED <<prog, assertsEnabled, run, reader, exe>>

\* ClrDebugHeader.DebugTableCount = currentTablePos;
PublishTableCount ==
  /\ Executing("PUBLISH")
  /\ ClrDebugHeader' = [ClrDebugHeader EXCEPT !.DebugTableCount = LocalValue(prog[pc].id)]
  /\ lastWrite' = [obj |-> "ClrDebugHeader", index |-> 0, inBounds |-> TRUE,
                   typeId |-> 0, typeCount |-> currentTypePos]
  /\ Proceed(TRUE)
  /\ UNCHANGED <<s_DebugTables, s_DebugGlobals, s_DebugTypes, s_DebugFields,
                 s_DebugBases, s_DebugDefines, linkedAfter>>
  /\ UNCHANGED <<locals, idLog, prog, assertsEnabled, run, reader, exe>>

\* ------------------------------------------------------ the external reader
\* A diagnostic tool outside the process: it reads the header's table count
\* and, having seen it nonzero, directory entries and the rows they point to.
NoEntry == [index |-> 0, seen |-> FALSE, value |-> ZeroTable]
NoRow == [table |-> NULL, index |-> 0, seen |-> FALSE, value |-> ZeroGlobalRow]

\* the object a pointer to an array of this file points to
Pointee(ptr) ==
  CASE ptr = "&s_DebugTables" -> "s_DebugTables"
    [] ptr = "&s_DebugGlobals" -> "s_DebugGlobals"
    [] ptr = "&s_DebugTypes" -> "s_DebugTypes"
    [] ptr = "&s_DebugFields" -> "s_DebugFields"
    [] ptr = "&s_DebugBases" -> "s_DebugBases"
    [] ptr = "&s_DebugDefines" -> "s_DebugDefines"
    [] OTHER -> "elsewhere"

Stores(obj) ==
  CASE obj = "s_DebugTables" -> s_DebugTables
    [] obj = "s_DebugGlobals" -> s_DebugGlobals
    [] obj = "s_DebugTypes" -> s_DebugTypes
    [] obj = "s_DebugFields" -> s_DebugFields
    [] obj = "s_DebugBases" -> s_DebugBases
    [] OTHER -> s_DebugDefines

\* obj[i] as memory holds it
Row(obj, i) == Elem(obj, Stores(obj), i)

ReaderReadCount ==
  /\ rdCount = 0
  /\ rdCount' = ClrDebugHeader.DebugTableCount
  /\ UNCHANGED <<rdEntry, rdRow, builder, memory, exe>>

ReaderReadEntry ==
  /\ rdCount # 0
  /\ Pointee(ClrDebugHeader.DebugTables) = "s_DebugTables"
  /\ \E i \in 0 .. DebugTablesArraySize - 1 :
       /\ ULess(i, rdCount)
       /\ rdEntry' = [index |-> i, seen |-> TRUE, value |-> Row("s_DebugTables", i)]
  /\ rdRow' = NoRow
  /\ UNCHANGED <<rdCount, builder, memory, exe>>

\* one row of the table the entry last read describes
ReaderReadRow ==
  /\ rdEntry.seen
  /\ ~rdRow.seen
  /\ LET obj == Pointee(rdEntry.value.TableElements) IN
       /\ obj \in Objects \ {"s_DebugTables", "ClrDebugHeader"}
       /\ \E j \in 0 .. Capacity(obj) - 1 :
            /\ ULess(j, rdEntry.value.RowCount)
            /\ rdRow' = [table |-> rdEntry.value.TableElements, index |-> j,
                         seen |-> TRUE, value |-> Row(obj, j)]
  /\ UNCHANGED <<rdCount, rdEntry, builder, memory, exe>>

\* ------------------------------------------------------------ specification
ExeIdle ==
  /\ exePlatform = "none"
  /\ exeOs = [call |-> FALSE, realpath |-> FALSE, alloc |-> FALSE, auxv |-> FALSE,
              execfn |-> FALSE, realpath2 |-> FALSE]
  /\ exeResult = "not called"

\* the state on entry to a builder function with the given body
Entry(body) ==
  /\ prog = body
  /\ assertsEnabled \in BOOLEAN
  /\ run = 1
  /\ pc = 1
  /\ status = "running"
  /\ currentTablePos = 0
  /\ currentGlobalPos = 0
  /\ currentTypePos = 0
  /\ currentBasePos = 0
  /\ currentFieldPos = 0
  /\ currentDefinePos = 0
  /\ typeIdVars = [n \in {} |-> 0]
  /\ s_DebugTables = [i \in {} |-> ZeroTable]
  /\ s_DebugGlobals = [i \in {} |-> ZeroGlobalRow]
  /\ s_DebugTypes = [i \in {} |-> ZeroTypeRow]
  /\ s_DebugFields = [i \in {} |-> ZeroMemberOffsetRow]
  /\ s_DebugBases = [i \in {} |-> ZeroMemberOffsetRow]
  /\ s_DebugDefines = [i \in {} |-> ZeroDefineRow]
  /\ ClrDebugHeader = InitialHeader
  /\ linkedAfter = [a \in {} |-> ""]
  /\ lastWrite = NoWrite
  /\ idLog = <<>>
  /\ rdCount = 0
  /\ rdEntry = NoEntry
  /\ rdRow = NoRow

\* PopulateClrDebugHeaders as written, built with or without
\* FEATURE_EH_FUNCLETS and with or without assertions
Init ==
  /\ \E funclets \in BOOLEAN : Entry(PopulateClrDebugHeaders(funclets))
  /\ ExeIdle

Next ==
  \/ MAKE_GLOBAL_ENTRY
  \/ MAKE_TYPE_ENTRY_WITH_ID
  \/ MAKE_BASE_TYPE_ENTRY_WITH_ID
  \/ MAKE_FIELD_ENTRY_WITH_ID
  \/ MAKE_DEFINE_ENTRY
  \/ MAKE_TABLE
  \/ PublishTableCount
  \/ ReaderReadCount
  \/ ReaderReadEntry
  \/ ReaderReadRow

Spec == Init /\ [][Next]_vars

\* The statements of the function are straight-line code run by one thread:
\* while a statement remains and the process has not aborted, the next one
\* is executed.
BuilderStep ==
  \/ MAKE_GLOBAL_ENTRY
  \/ MAKE_TYPE_ENTRY_WITH_ID
  \/ MAKE_BASE_TYPE_ENTRY_WITH_ID
  \/ MAKE_FIELD_ENTRY_WITH_ID
  \/ MAKE_DEFINE_ENTRY
  \/ MAKE_TABLE
  \/ PublishTableCount

SpecLive == Init /\ [][Next]_vars /\ WF_vars(BuilderStep)

\* ------------------------------------------------- the function called again
\* the locals' initializers held back: the counters keep their values
Rerun_CountersKept ==
  /\ status = "done"
  /\ run < MaxRuns
  /\ run' = run + 1
  /\ pc' = 1
  /\ status' = "running"
  /\ typeIdVars' = [n \in {} |-> 0]
  /\ lastWrite' = NoWrite
  /\ idLog' = <<>>
  /\ UNCHANGED <<currentTablePos, currentGlobalPos, currentTypePos, currentBasePos,
                 currentFieldPos, currentDefinePos>>
  /\ UNCHANGED <<prog, assertsEnabled, memory, reader, exe>>

\* A caller calls PopulateClrDebugHeaders again after it returned: the
\* locals are initialized anew (lines 173-178, and the TypeIdName locals go
\* out of scope), the objects with static storage keep their contents.
Rerun ==
  /\ status = "done"
  /\ run < MaxRuns
  /\ run' = run + 1
  /\ pc' = 1
  /\ status' = "running"
  /\ currentTablePos' = 0
  /\ currentGlobalPos' = 0
  /\ currentTypePos' = 0
  /\ currentBasePos' = 0
  /\ currentFieldPos' = 0
  /\ currentDefinePos' = 0
  /\ typeIdVars' = [n \in {} |-> 0]
  /\ lastWrite' = NoWrite
  /\ idLog' = <<>>
  /\ UNCHANGED <<prog, assertsEnabled, memory, reader, exe>>

\* The reader here reads the count and the directory entries while the
\* function runs again; the rows it could read are the rows memory holds,
\* which the properties of this specification state for every state.
NextRerun ==
  \/ BuilderStep
  \/ Rerun
  \/ ReaderReadCount
  \/ ReaderReadEntry

SpecRerun == Init /\ [][NextRerun]_vars

\* ------------------------------------------- the registrar on any sequence
\* The macros used by a function that makes other registration calls than
\* PopulateClrDebugHeaders does.  A sequence must compile: a TypeIdName
\* local is declared once, and before the calls that read it.
Compiles(calls) ==
  \A i \in 1 .. Len(calls) :
    /\ calls[i].op = "TYPE" =>
         \A j \in 1 .. i - 1 : ~(calls[j].op = "TYPE" /\ calls[j].id = calls[i].id)
    /\ calls[i].op \in {"FIELD", "BASE"} =>
         \E j \in 1 .. i - 1 : calls[j].op = "TYPE" /\ calls[j].id = calls[i].id

PointType == TypeCall("Point", "PointTypeId", 8, 0)
Point3Type == TypeCall("Point3", "Point3TypeId", 16, 0)

SampleCalls ==
  { GlobalCall("g_a", 0), GlobalCall("g_b", 0),
    PointType, Point3Type,
    FieldCall("x", "PointTypeId", 0, 0), FieldCall("y", "PointTypeId", 4, 0),
    BaseCall("Point", "Point3TypeId", 8, 4, 0),
    DefineCall("K", 7, 0) }

ShortSequences ==
  { s \in UNION { [1 .. n -> SampleCalls] : n \in 0 .. MaxLen } : Compiles(s) }

\* n registrations of one category, after the type declarations they need
Burst(op, n) ==
  CASE op = "GLOBAL" -> [i \in 1 .. n |-> GlobalCall("g" \o ToString(i), 0)]
    [] op = "TYPE" ->
         [i \in 1 .. n |-> TypeCall("T" \o ToString(i), "T" \o ToString(i) \o "TypeId", 8, 0)]
    [] op = "FIELD" ->
         <<PointType>> \o [i \in 1 .. n |-> FieldCall("f" \o ToString(i), "PointTypeId", 4 * (i - 1), 0)]
    [] op = "BASE" ->
         <<PointType, Point3Type>> \o [i \in 1 .. n |-> BaseCall("Point", "Point3TypeId", 8, 4, 0)]
    [] OTHER -> [i \in 1 .. n |-> DefineCall("D" \o ToString(i), i, 0)]

RowArrayOf(op) ==
  CASE op = "GLOBAL" -> "s_DebugGlobals"
    [] op = "TYPE" -> "s_DebugTypes"
    [] op = "FIELD" -> "s_DebugFields"
    [] op = "BASE" -> "s_DebugBases"
    [] OTHER -> "s_DebugDefines"

Categories == {"GLOBAL", "TYPE", "FIELD", "BASE", "DEFINE"}

BurstSequences ==
  { Burst(op, Capacity(RowArrayOf(op)) + over) : op \in Categories, over \in 0 .. MaxOver }

\* the sequences of PopulateClrDebugHeaders itself are among them
InitReg ==
  /\ \E calls \in ShortSequences \cup BurstSequences
                    \cup {RegistrationCalls(f) : f \in BOOLEAN} :
       Entry(FunctionBody(calls))
  /\ ExeIdle

SpecReg == InitReg /\ [][Next]_vars

\* ------------------------------------------------------ minipal_getexepath
\* The preprocessor branch the build takes.  "__linux__" and "procfs" are
\* the two variants of the final #else branch (/proc/self/exe and
\* /proc/curproc/exe).
Platforms == {"__APPLE__", "__FreeBSD__", "__sun", "__HAIKU__", "_WIN32",
              "TARGET_WASM", "__linux__", "procfs"}

\* What the operating system and the C library do in one call of the
\* function:
\*   call       the branch's own query succeeds (_NSGetExecutablePath and
\*              sysctl return 0, getexecname returns a name, find_path
\*              returns B_OK, GetModuleFileNameA returns nonzero)
\*   realpath   the branch's first realpath call returns a path
\*   alloc      strdup returns a copy
\*   auxv       HAVE_GETAUXVAL && defined(AT_EXECFN)
\*   execfn     getauxval(AT_EXECFN) returns a name
\*   realpath2  realpath of that name returns a path
OsBehaviours ==
  [call : BOOLEAN, realpath : BOOLEAN, alloc : BOOLEAN, auxv : BOOLEAN,
   execfn : BOOLEAN, realpath2 : BOOLEAN]

\* realpath(path, NULL): a malloc'ed resolved path, or NULL
realpath(ok, path) == IF ok THEN "realpath(" \o path \o ")" ELSE NULL
\* strdup(s): a malloc'ed copy, or NULL
strdup(ok, s) == IF ok THEN s ELSE NULL

\* the __APPLE__ branch testing _NSGetExecutablePath's result the wrong way round
minipal_getexepath_Inverted(platform, os) ==
  CASE platform = "__APPLE__" ->
         IF os.call THEN NULL ELSE realpath(os.realpath, "pathBuf")
    [] platform = "__FreeBSD__" ->
         IF ~os.call THEN NULL ELSE strdup(os.alloc, "path")
    [] platform = "__sun" ->
         IF ~os.call THEN NULL ELSE realpath(os.realpath, "path")
    [] platform = "__HAIKU__" ->
         IF ~os.call THEN NULL ELSE realpath(os.realpath, "path")
    [] platform = "_WIN32" ->
         IF ~os.call THEN NULL ELSE strdup(os.alloc, "path")
    [] platform = "TARGET_WASM" ->
         strdup(os.alloc, "/managed")
    [] OTHER ->
         LET symlinkEntrypointExecutable ==
               IF platform = "__linux__" THEN "/proc/self/exe" ELSE "/proc/curproc/exe"
             path == realpath(os.realpath, symlinkEntrypointExecutable)
         IN  IF path # NULL THEN path
             ELSE IF os.auxv /\ os.execfn THEN realpath(os.realpath2, "exePath")
             ELSE NULL

minipal_getexepath(platform, os) ==
  CASE platform = "__APPLE__" ->
         IF ~os.call THEN NULL ELSE realpath(os.realpath, "pathBuf")
    [] platform = "__FreeBSD__" ->
         IF ~os.call THEN NULL ELSE strdup(os.alloc, "path")
    [] platform = "__sun" ->
         IF ~os.call THEN NULL ELSE realpath(os.realpath, "path")
    [] platform = "__HAIKU__" ->
         IF ~os.call THEN NULL ELSE realpath(os.realpath, "path")
    [] platform = "_WIN32" ->
         IF ~os.call THEN NULL ELSE strdup(os.alloc, "path")
    [] platform = "TARGET_WASM" ->
         strdup(os.alloc, "/managed")
    [] OTHER ->
         LET symlinkEntrypointExecutable ==
               IF platform = "__linux__" THEN "/proc/self/exe" ELSE "/proc/curproc/exe"
             path == realpath(os.realpath, symlinkEntrypointExecutable)
         IN  IF path # NULL THEN path
             ELSE IF os.auxv /\ os.execfn THEN realpath(os.realpath2, "exePath")
             ELSE NULL

CallGetExePath ==
  /\ exeResult = "not called"
  /\ exeResult' = minipal_getexepath(exePlatform, exeOs)
  /\ UNCHANGED <<exePlatform, exeOs, builder, memory, reader>>

InitExe ==
  /\ Entry(FunctionBody(<<>>))
  /\ exePlatform \in Platforms
  /\ exeOs \in OsBehaviours
  /\ exeResult = "not called"

NextExe == CallGetExePath

SpecExe == InitExe /\ [][NextExe]_vars

\* ------------------------------------------ what the registrations call for
\* Read off the call sequence alone, without the counters and the arrays.
CallsOf(calls, op) == SelectSeq(calls, LAMBDA c : c.op = op)

Executed == SubSeq(prog, 1, pc - 1)

\* position among the TYPE calls (types) of the one that declares the local idName
DeclaredPosition(types, idName) ==
  CHOOSE k \in 0 .. Len(types) - 1 : types[k + 1].id = idName

\* the row the call c is to store, types being the TYPE calls of its function
RowCalledFor(types, c) ==
  CASE c.op = "GLOBAL" -> DebugGlobalRow(c.name, c.ptr)
    [] c.op = "TYPE" -> DebugTypeRow(c.name, c.val)
    [] c.op = "FIELD" ->
         DebugMemberOffsetRow(c.name, DeclaredPosition(types, c.id), c.val)
    [] c.op = "BASE" ->
         DebugMemberOffsetRow(c.name, DeclaredPosition(types, c.id), c.val - c.val2)
    [] OTHER -> DebugDefineRow(c.name, c.val)

CounterOf(op) ==
  CASE op = "GLOBAL" -> currentGlobalPos
    [] op = "TYPE" -> currentTypePos
    [] op = "FIELD" -> currentFieldPos
    [] op = "BASE" -> currentBasePos
    [] OTHER -> currentDefinePos

WithinCapacity(calls) ==
  \A op \in Categories : Len(CallsOf(calls, op)) <= Capacity(RowArrayOf(op))

\* rows 0 .. n-1 of the category's array are the rows of its first n calls,
\* in order, and the rest of the array is untouched
HoldsRowsOf(op, calls) ==
  LET mine == CallsOf(calls, op)
      types == CallsOf(prog, "TYPE")
      obj == RowArrayOf(op)
  IN  /\ \A k \in 0 .. Len(mine) - 1 : Row(obj, k) = RowCalledFor(types, mine[k + 1])
      /\ \A k \in DOMAIN Stores(obj) : k < Len(mine)

\* the directory as section 4.1 of the specification lists it
DirectoryOrder ==
  << [name |-> "Global", rows |-> "&s_DebugGlobals", op |-> "GLOBAL"],
     [name |-> "Type", rows |-> "&s_DebugTypes", op |-> "TYPE"],
     [name |-> "Field", rows |-> "&s_DebugFields", op |-> "FIELD"],
     [name |-> "Base", rows |-> "&s_DebugBases", op |-> "BASE"],
     [name |-> "Define", rows |-> "&s_DebugDefines", op |-> "DEFINE"] >>

EntryCalledFor(k) ==
  DebugTable(DirectoryOrder[k + 1].name, DirectoryOrder[k + 1].rows,
             Len(CallsOf(prog, DirectoryOrder[k + 1].op)))

FullyPopulated ==
  /\ \A op \in Categories : HoldsRowsOf(op, prog)
  /\ \A k \in 0 .. DebugTablesArraySize - 1 : Row("s_DebugTables", k) = EntryCalledFor(k)

\* ------------------------------------------------------------------ claims

\* C1 (publish-last): whenever the table count in memory, or the count the
\* reader has read, is nonzero, every row of every row table and all five
\* directory entries hold their final values; so every directory entry and
\* every row the reader goes on to read is the final one.
C1_PublishLast ==
  /\ ClrDebugHeader.DebugTableCount # 0 => FullyPopulated
  /\ rdCount # 0 => FullyPopulated
  /\ rdEntry.seen => rdEntry.value = EntryCalledFor(rdEntry.index)
  /\ rdRow.seen =>
       \E k \in 1 .. Len(DirectoryOrder) :
         /\ DirectoryOrder[k].rows = rdRow.table
         /\ LET mine == CallsOf(prog, DirectoryOrder[k].op)
            IN  /\ rdRow.index < Len(mine)
                /\ rdRow.value = RowCalledFor(CallsOf(prog, "TYPE"), mine[rdRow.index + 1])

C1_Witness ==
  /\ rdCount = DebugTablesArraySize
  /\ rdRow.seen
  /\ rdRow.table = "&s_DebugBases"
  /\ rdRow.index > 0

\* C2: the header's table count is 0 in every state before the final store
\* of PopulateClrDebugHeaders and 5 from then on; the cookie is
\* 0x20 0x43 0x44 0x48 and the versions are 2 and 0 in every state.
C2_HeaderFields ==
  /\ pc <= Len(prog) => ClrDebugHeader.DebugTableCount = 0
  /\ pc > Len(prog) => ClrDebugHeader.DebugTableCount = 5
  /\ status = "done" <=> pc > Len(prog)
  /\ ClrDebugHeader.Cookie = <<32, 67, 68, 72>>
  /\ ClrDebugHeader.MajorVersion = 2
  /\ ClrDebugHeader.MinorVersion = 0

C2_Witness ==
  /\ status = "done"
  /\ ClrDebugHeader.DebugTableCount = 5
  /\ currentFieldPos > 0

\* C3: a registration made when its table is full triggers the fatal
\* condition and halts the builder, and stores nothing: a counter beyond
\* its table's capacity means the builder has aborted, and no store was
\* ever made past the end of a table.
C3_CapacityExceededHalts ==
  /\ \A op \in Categories :
       ULess(Capacity(RowArrayOf(op)), CounterOf(op)) => status = "aborted"
  /\ lastWrite.inBounds

\* C4 (no forward references): the TypeId of every Field row and every
\* Base row is, when the row is stored, less than the number of Type rows
\* registered so far.
C4_NoForwardReference ==
  lastWrite.obj \in {"s_DebugFields", "s_DebugBases"} =>
    ULess(lastWrite.typeId, lastWrite.typeCount)

C4_Witness ==
  /\ lastWrite.obj = "s_DebugBases"
  /\ lastWrite.typeId = 1
  /\ lastWrite.typeCount = 2

\* C5: the N-th type registration gives the id N-1, every declared
\* TypeIdName local holds the position of its declaration, and the row a
\* registration stores (the table not being full) is the row of that index
\* and carries the registered type's name and size.
C5_TypeIdsCountFromZero ==
  LET types == CallsOf(prog, "TYPE") IN
  /\ \A n \in 1 .. Len(idLog) : idLog[n] = n - 1
  /\ Len(idLog) = Len(CallsOf(Executed, "TYPE"))
  /\ DOMAIN typeIdVars = {types[n].id : n \in 1 .. Len(idLog)}
  /\ \A n \in 1 .. Len(idLog) : typeIdVars[types[n].id] = n - 1
  /\ (lastWrite.obj = "s_DebugTypes" /\ lastWrite.inBounds) =>
       /\ lastWrite.index = idLog[Len(idLog)]
       /\ Row("s_DebugTypes", lastWrite.index).TypeName = types[Len(idLog)].name
       /\ Row("s_DebugTypes", lastWrite.index).Size = types[Len(idLog)].val

C5_Witness ==
  /\ Len(idLog) = 2
  /\ lastWrite.obj = "s_DebugTypes"
  /\ lastWrite.index = 1

\* C6: for a sequence of registrations within capacity, in every state each
\* category's counter is the number of its registrations made so far, its
\* array holds exactly their rows in order (the k-th row the arguments of
\* the k-th registration) and nothing else, and at the end each directory
\* entry's row count is the number of registrations of its category.
C6_RowsAreRegistrations ==
  (WithinCapacity(prog) /\ status # "aborted") =>
    /\ \A op \in Categories :
         /\ CounterOf(op) = Len(CallsOf(Executed, op))
         /\ HoldsRowsOf(op, Executed)
    /\ status = "done" =>
         \A k \in 0 .. DebugTablesArraySize - 1 :
           Row("s_DebugTables", k).RowCount = Len(CallsOf(prog, DirectoryOrder[k + 1].op))

C6_Witness ==
  /\ status = "done"
  /\ Row("s_DebugTypes", 0) = DebugTypeRow("Point", 8)
  /\ Row("s_DebugFields", 0) = DebugMemberOffsetRow("x", 0, 0)
  /\ Row("s_DebugFields", 1) = DebugMemberOffsetRow("y", 0, 4)
  /\ Row("s_DebugTables", 2) = DebugTable("Field", "&s_DebugFields", 2)

\* C7: after PopulateClrDebugHeaders the directory holds five entries, named
\* "Global", "Type", "Field", "Base", "Define" in this order, each pointing
\* at its own category's array with that category's final counter as row
\* count, and the header points at the directory and counts five tables.
C7_Directory ==
  status = "done" =>
    /\ \A k \in 0 .. DebugTablesArraySize - 1 :
         Row("s_DebugTables", k)
           = DebugTable(DirectoryOrder[k + 1].name, DirectoryOrder[k + 1].rows,
                        CounterOf(DirectoryOrder[k + 1].op))
    /\ DOMAIN s_DebugTables = 0 .. 4
    /\ ClrDebugHeader.DebugTables = "&s_DebugTables"
    /\ ClrDebugHeader.DebugTableCount = 5

C7_Witness ==
  /\ status = "done"
  /\ Row("s_DebugTables", 3).TableName = "Base"
  /\ Row("s_DebugTables", 3).RowCount = 15

\* C8: once the table count is nonzero no step changes a row, a directory
\* entry or a header field.
C8_FrozenOncePublished ==
  [][ClrDebugHeader.DebugTableCount # 0 => UNCHANGED memory]_vars

C8_Witness ==
  /\ ClrDebugHeader.DebugTableCount # 0
  /\ rdEntry.seen
  /\ rdRow.seen

\* C9 (all or nothing): when the builder has aborted the table count is 0,
\* and the table count is nonzero only after a run in which every
\* registration fitted its table and all statements were executed.
C9_AllOrNothing ==
  /\ status = "aborted" => ClrDebugHeader.DebugTableCount = 0
  /\ ClrDebugHeader.DebugTableCount # 0 =>
       /\ status = "done"
       /\ \A op \in Categories : ULeq(CounterOf(op), Capacity(RowArrayOf(op)))

\* ---- minipal_getexepath
\* the operating system resolved the executable's path in this call
Resolved(platform, os) ==
  CASE platform \in {"__APPLE__", "__sun", "__HAIKU__"} -> os.call /\ os.realpath
    [] platform \in {"__FreeBSD__", "_WIN32"} -> os.call
    [] platform = "TARGET_WASM" -> FALSE
    [] OTHER -> os.realpath \/ (os.auxv /\ os.execfn /\ os.realpath2)

\* C10 as stated: on every platform branch the result is NULL when the
\* resolution failed, and non-NULL only when it succeeded.
C10_AsStated ==
  exeResult # "not called" =>
    /\ ~Resolved(exePlatform, exeOs) => exeResult = NULL
    /\ exeResult # NULL => Resolved(exePlatform, exeOs)

\* C10 amended: the above on every branch that asks the operating system;
\* the TARGET_WASM branch asks nothing and returns a copy of "/managed"
\* (NULL only if the copy cannot be allocated).
C10_FailureIsNull ==
  exeResult # "not called" =>
    IF exePlatform = "TARGET_WASM"
      THEN exeResult = (IF exeOs.alloc THEN "/managed" ELSE NULL)
      ELSE /\ ~Resolved(exePlatform, exeOs) => exeResult = NULL
           /\ exeResult # NULL => Resolved(exePlatform, exeOs)

C10_Witness ==
  /\ exePlatform = "__linux__"
  /\ ~exeOs.realpath
  /\ exeOs.auxv /\ exeOs.execfn /\ ~exeOs.realpath2
  /\ exeResult = NULL

\* ---- PopulateClrDebugHeaders, continued
\* C11 (bounds safety of writes): every store a macro makes into a row
\* array or into the directory array is at an index strictly below that
\* array's capacity, whatever the registration sequence; the capacity check
\* stops the builder before an out-of-range element is written.
C11_WritesInBounds ==
  lastWrite.obj # "" =>
    /\ lastWrite.inBounds
    /\ ULess(lastWrite.index, Capacity(lastWrite.obj))

\* C12: the sequence PopulateClrDebugHeaders executes, with or without
\* FEATURE_EH_FUNCLETS, stays within every capacity: at every point each
\* counter is at most its array's size (50, 100, 200, 100, 50 and 5 for the
\* directory), no assertion fires, and the run reaches the final store of
\* the table count.
C12_SequenceFits ==
  /\ [](/\ \A op \in Categories : ULeq(CounterOf(op), Capacity(RowArrayOf(op)))
        /\ ULeq(currentTablePos, DebugTablesArraySize)
        /\ status # "aborted")
  /\ <>(status = "done" /\ ClrDebugHeader.DebugTableCount = currentTablePos)

C12_Witness ==
  /\ status = "done"
  /\ currentGlobalPos = 8
  /\ currentTypePos = 61
  /\ currentFieldPos = 147
  /\ currentBasePos = 15
  /\ currentDefinePos = 5
  /\ currentTablePos = 5

C14_BaseTypeRegisteredFirst ==
  /\ \A i \in DOMAIN s_DebugBases :
       \E k \in DOMAIN s_DebugTypes :
         /\ s_DebugTypes[k].TypeName = s_DebugBases[i].MemberName
         /\ k < s_DebugBases[i].TypeId
  /\ lastWrite.obj = "s_DebugBases" =>
       \E k \in 0 .. lastWrite.typeCount - 1 :
         /\ Row("s_DebugTypes", k).TypeName = Row("s_DebugBases", lastWrite.index).MemberName
         /\ k # lastWrite.typeId

C14_Witness ==
  /\ lastWrite.obj = "s_DebugBases"
  /\ Row("s_DebugBases", lastWrite.index).MemberName = "Object"
  /\ Row("s_DebugTypes", lastWrite.typeId).TypeName = "StringObject"
  /\ Row("s_DebugTypes", 51).TypeName = "Object"

\* C15 (idempotent): a second call of PopulateClrDebugHeaders starts its
\* counters at 0 again and stores to every row and directory entry the value
\* it already holds, at the same index, and the table count stays 5: in
\* every state of a later call, and after it, memory is what the first call
\* left, and what the reader has read is a final value.
C15_Idempotent ==
  /\ run > 1 =>
       /\ FullyPopulated
       /\ DOMAIN s_DebugTables = 0 .. DebugTablesArraySize - 1
       /\ ClrDebugHeader = [InitialHeader EXCEPT !.DebugTableCount = 5]
       /\ linkedAfter = [a \in {} |-> ""]
       /\ \A op \in Categories : ULeq(CounterOf(op), Len(CallsOf(prog, op)))
       /\ status # "aborted"
  /\ rdCount \in {0, 5}
  /\ rdEntry.seen => rdEntry.value = EntryCalledFor(rdEntry.index)

C15_Witness ==
  /\ run = 2
  /\ status = "done"
  /\ lastWrite.obj = "ClrDebugHeader"
  /\ rdEntry.seen
  /\ rdEntry.index = 2
====
